---- MODULE Spec2Model ----
(***************************************************************************)
(* A model of cockroach-prod's node inventory (docker/machine.go), its     *)
(* OAuth token cache (drivers/google/auth_util.go) and its security group  *)
(* ingress call (drivers/amazon).                                          *)
(*                                                                         *)
(* Strings are sequences of one-character strings, so that formatting,     *)
(* pattern matching and integer parsing are computed character by          *)
(* character as the Go code computes them.                                 *)
(***************************************************************************)
EXTENDS Integers, Sequences, FiniteSets, TLC

(***************************************************************************)
(* Bounds                                                                  *)
(***************************************************************************)
\* Width of Go's int in the model (64 on the real platform): scaled down so
\* that the range error of strconv.Atoi is within reach of short names.
IntBits == 8

\* Longest machine listing handed to the inventory functions.
MaxList == 3

\* Create commands run in one behaviour of the cluster.
MaxCreate == 3

\* Token acquisitions (newOauthClient calls) in one behaviour.
MaxAcquire == 2

\* Ingress calls in one behaviour.
MaxIngress == 3

RECURSIVE Pow2(_)
Pow2(n) == IF n = 0 THEN 1 ELSE 2 * Pow2(n - 1)

MaxInt == Pow2(IntBits - 1) - 1

(***************************************************************************)
(* docker/machine.go: names                                                *)
(***************************************************************************)
\* The literal part of cockroachNodeName and of cockroachNodeRegexp.
NodePrefix == <<"c", "o", "c", "k", "r", "o", "a", "c", "h", "-">>

DigitChars == <<"0", "1", "2", "3", "4", "5", "6", "7", "8", "9">>

IsDigit(c) == \E d \in 1..10 : DigitChars[d] = c

DigitVal(c) == (CHOOSE d \in 1..10 : DigitChars[d] = c) - 1

\* fmt's %d for a non-negative value: decimal digits, most significant first,
\* no padding.
RECURSIVE FormatUint(_)
FormatUint(u) ==
    IF u < 10 THEN <<DigitChars[u + 1]>>
    ELSE Append(FormatUint(u \div 10), DigitChars[(u % 10) + 1])

\* fmt's %d: a minus sign for a negative value.
FormatInt(i) == IF i < 0 THEN <<"-">> \o FormatUint(0 - i) ELSE FormatUint(i)

\* A mutant of MakeNodeName: the id is formatted modulo 100.
MakeNodeNameTrunc(id) == NodePrefix \o FormatInt(id % 100)

\* MakeNodeName: fmt.Sprintf("cockroach-%d", id).
MakeNodeName(id) == NodePrefix \o FormatInt(id)

\* cockroachNodeRegexp, ^cockroach-([0-9]+)$, run as an automaton over the
\* text from position i: q counts the characters of the literal matched so
\* far; after the literal, one or more digits up to the end of the text.
RECURSIVE RegexpRun(_, _, _)
RegexpRun(s, i, q) ==
    IF q < Len(NodePrefix)
    THEN /\ i <= Len(s)
         /\ s[i] = NodePrefix[q + 1]
         /\ RegexpRun(s, i + 1, q + 1)
    ELSE IF i > Len(s) THEN q > Len(NodePrefix)
         ELSE IsDigit(s[i]) /\ RegexpRun(s, i + 1, Len(NodePrefix) + 1)

\* A mutant of the pattern: the closing $ is missing, so that a name matches
\* as soon as the literal and one digit are read.
RECURSIVE RegexpRunNoEnd(_, _, _)
RegexpRunNoEnd(s, i, q) ==
    IF q < Len(NodePrefix)
    THEN /\ i <= Len(s)
         /\ s[i] = NodePrefix[q + 1]
         /\ RegexpRunNoEnd(s, i + 1, q + 1)
    ELSE i <= Len(s) /\ IsDigit(s[i])

\* The end of the longest run of digits of s that starts at position i.
RECURSIVE DigitsEnd(_, _)
DigitsEnd(s, i) ==
    IF i <= Len(s) /\ IsDigit(s[i]) THEN DigitsEnd(s, i + 1) ELSE i - 1

MatchStringNoEnd(s) == RegexpRunNoEnd(s, 1, 0)

\* cockroachNodeRegexp.MatchString.
MatchString(s) == RegexpRun(s, 1, 0)

FindStringSubmatchNoEnd(s) ==
    IF MatchStringNoEnd(s)
    THEN <<SubSeq(s, 1, DigitsEnd(s, Len(NodePrefix) + 1)),
           SubSeq(s, Len(NodePrefix) + 1, DigitsEnd(s, Len(NodePrefix) + 1))>>
    ELSE <<>>

\* cockroachNodeRegexp.FindStringSubmatch: nil (the empty tuple) when the
\* text does not match, else the whole match and the captured digits.
FindStringSubmatch(s) ==
    IF MatchString(s)
    THEN <<s, SubSeq(s, Len(NodePrefix) + 1, Len(s))>>
    ELSE <<>>

(***************************************************************************)
(* strconv.Atoi on the captured digits                                     *)
(***************************************************************************)
\* The digits accumulate most significant first; a value above the largest
\* int is a range error (strconv.ErrRange), whatever digits follow.
RECURSIVE AtoiRun(_, _, _)
AtoiRun(s, i, n) ==
    IF i > Len(s) THEN [n |-> n, err |-> ""]
    ELSE IF ~IsDigit(s[i]) THEN [n |-> 0, err |-> "invalid syntax"]
    ELSE LET n1 == n * 10 + DigitVal(s[i])
         IN  IF n1 > MaxInt THEN [n |-> MaxInt, err |-> "value out of range"]
             ELSE AtoiRun(s, i + 1, n1)

Atoi(s) ==
    IF Len(s) = 0 THEN [n |-> 0, err |-> "invalid syntax"] ELSE AtoiRun(s, 1, 0)

(***************************************************************************)
(* docker/machine.go: ListCockroachNodes and GetLargestNodeIndex           *)
(***************************************************************************)
\* A Go error of GetLargestNodeIndex: the message and the entry it names.
NoErr == [msg |-> "", name |-> <<>>]

Errorf(nodeName) == [msg |-> "invalid cockroach node name", name |-> nodeName]

\* The error of a failed `docker-machine ls -q`.
LsErr == [msg |-> "docker-machine ls failed", name |-> <<>>]

\* A mutant of the filter's append: the match is put in front.
KeepPrepend(ret, mach) == IF MatchString(mach) THEN <<mach>> \o ret ELSE ret

\* The body of ListCockroachNodes' loop: a matching machine is appended.
Keep(ret, mach) == IF MatchString(mach) THEN Append(ret, mach) ELSE ret

RECURSIVE FilterLoop(_, _, _)
FilterLoop(machines, i, ret) ==
    IF i > Len(machines) THEN ret
    ELSE FilterLoop(machines, i + 1, Keep(ret, machines[i]))

\* ListCockroachNodes, given what ListMachines returned: the listing and
\* whether it failed.
ListCockroachNodes(machines, lsFailed) ==
    IF lsFailed THEN [nodes |-> <<>>, err |-> LsErr]
    ELSE [nodes |-> FilterLoop(machines, 1, <<>>), err |-> NoErr]

\* A mutant of the comparison: the last index wins.
LargerLast(index, largest) == index

\* A mutant of the comparison: the assignment is lost.
LargerKept(index, largest) == largest

\* if index > largest { largest = index }
Larger(index, largest) == IF index > largest THEN index ELSE largest

RECURSIVE LargestLoop(_, _, _)
LargestLoop(nodes, i, largest) ==
    IF i > Len(nodes) THEN [index |-> largest, err |-> NoErr]
    ELSE LET match == FindStringSubmatch(nodes[i])
         IN  IF match = <<>> \/ Len(match) # 2
             THEN [index |-> -1, err |-> Errorf(nodes[i])]
             ELSE LET a == Atoi(match[2])
                  IN  IF a.err # ""
                      THEN [index |-> -1, err |-> Errorf(nodes[i])]
                      ELSE LargestLoop(nodes, i + 1, Larger(a.n, largest))

\* GetLargestNodeIndex: var largest int starts at 0.
GetLargestNodeIndex(nodes) == LargestLoop(nodes, 1, 0)

(***************************************************************************)
(* State                                                                   *)
(***************************************************************************)
VARIABLES
    \* The inventory functions applied to drawn inputs.
    input,      \* the argument drawn: an id, or a listing of machine names
    made,       \* what MakeNodeName returned (<<>> before the call)
    listed,     \* what ListCockroachNodes returned
    idx,        \* what GetLargestNodeIndex returned
    \* The cluster: docker-machine's registry and the operators adding nodes.
    registry,   \* the machines docker-machine knows, as `ls -q` lists them
    pc,         \* per operator: where it stands in list, index, create
    nodes,      \* per operator: the nodes it listed
    largest,    \* per operator: the largest index it computed
    opErr,      \* per operator: the error that ended its last run
    issued,     \* the create commands run so far: name, and the listing then
    \* The token cache of the Google driver.
    file,       \* the token file: whether it exists, can be opened, its bytes
    put,        \* the PutToken call under way, and how the last one ended
    acq,        \* the token acquisition under way (browserSource.Token)
    prev,       \* the acquisition completed before it
    acquired,   \* how many acquisitions have completed
    \* The security group of the Amazon driver.
    rules,      \* the provider's ingress rules: how many of each it holds
    calls       \* the AddCockroachSecurityGroupIngress calls made, in order

invVars == <<input, made, listed, idx>>

clusterVars == <<registry, pc, nodes, largest, opErr, issued>>

tokenVars == <<file, put, acq, prev, acquired>>

ingressVars == <<rules, calls>>

vars == <<invVars, clusterVars, tokenVars, ingressVars>>

(***************************************************************************)
(* drivers/google/auth_util.go: the token file                             *)
(***************************************************************************)
\* An oauth2.Token: its access and refresh strings. NoToken is the nil token.
NoToken == [access |-> "", refresh |-> ""]

Tokens == { [access |-> "a1", refresh |-> "r1"], [access |-> "a2", refresh |-> "r2"] }

\* gob.NewEncoder(file).Encode(tok): a stream of two messages, the type
\* descriptor and the value, each a byte count followed by that many bytes.
GobEncode(tok) == <<"2", "T", "D", "2", tok.access, tok.refresh>>

\* One message of a gob stream read at position i of the bytes.
GobMessage(bytes, i) ==
    IF i > Len(bytes) THEN [err |-> "EOF", body |-> <<>>, next |-> i]
    ELSE IF ~IsDigit(bytes[i]) THEN [err |-> "gob: bad data", body |-> <<>>, next |-> i]
    ELSE LET n == DigitVal(bytes[i])
         IN  IF i + n > Len(bytes)
             THEN [err |-> "unexpected EOF", body |-> <<>>, next |-> i]
             ELSE [err |-> "", body |-> SubSeq(bytes, i + 1, i + n), next |-> i + n + 1]

\* gob.NewDecoder(file).Decode(tok): the type descriptor, then the value.
GobDecode(bytes) ==
    LET t == GobMessage(bytes, 1)
    IN  IF t.err # "" THEN [tok |-> NoToken, err |-> t.err]
        ELSE IF t.body # <<"T", "D">> THEN [tok |-> NoToken, err |-> "gob: bad data"]
        ELSE LET v == GobMessage(bytes, t.next)
             IN  IF v.err # "" THEN [tok |-> NoToken, err |-> "unexpected EOF"]
                 ELSE IF Len(v.body) # 2 THEN [tok |-> NoToken, err |-> "gob: bad data"]
                 ELSE [tok |-> [access |-> v.body[1], refresh |-> v.body[2]], err |-> ""]

NoFile == [exists |-> FALSE, readable |-> FALSE, bytes |-> <<>>]

\* A mutant of gobSource.Token: a failed decode is not reported.
GobSourceTokenLax(f, closeFails) ==
    IF ~f.exists THEN [tok |-> NoToken, err |-> "no such file"]
    ELSE IF ~f.readable THEN [tok |-> NoToken, err |-> "permission denied"]
    ELSE [tok |-> GobDecode(f.bytes).tok, err |-> IF closeFails THEN "close" ELSE ""]

\* gobSource.Token: open, decode, close. The token comes with Close's error.
GobSourceToken(f, closeFails) ==
    IF ~f.exists THEN [tok |-> NoToken, err |-> "no such file"]
    ELSE IF ~f.readable THEN [tok |-> NoToken, err |-> "permission denied"]
    ELSE LET d == GobDecode(f.bytes)
         IN  IF d.err # "" THEN [tok |-> NoToken, err |-> d.err]
             ELSE [tok |-> d.tok, err |-> IF closeFails THEN "close" ELSE ""]

\* The errors of gobSource.Token that mean the file did not open or decode.
FileErrors == {"no such file", "permission denied", "EOF", "unexpected EOF", "gob: bad data"}

(***************************************************************************)
(* gobSource.PutToken, step by step                                        *)
(***************************************************************************)
PutIdle == [pc |-> "idle", tok |-> NoToken, encErr |-> "", clErr |-> "",
            last |-> "none", ret |-> ""]

\* os.MkdirAll(parent, 0700), then the call goes on or returns the error.
PutMkdir ==
    /\ put.pc = "idle"
    /\ acq.pc = "idle"
    /\ \E tok \in Tokens, mkdirOk \in BOOLEAN :
          put' = IF mkdirOk
                 THEN [PutIdle EXCEPT !.pc = "mkdir", !.tok = tok]
                 ELSE [PutIdle EXCEPT !.last = "returned", !.ret = "mkdir"]
    /\ UNCHANGED <<file, acq, prev, acquired, invVars, clusterVars, ingressVars>>

\* os.OpenFile(filename, O_RDWR|O_CREATE|O_TRUNC, 0600): the file is created
\* or emptied; a file that cannot be opened stays as it is.
PutOpen ==
    /\ put.pc = "mkdir"
    /\ \E openOk \in BOOLEAN :
          IF openOk /\ (file.exists => file.readable)
          THEN /\ file' = [exists |-> TRUE, readable |-> TRUE, bytes |-> <<>>]
               /\ put' = [put EXCEPT !.pc = "opened"]
          ELSE /\ file' = file
               /\ put' = [PutIdle EXCEPT !.last = "returned", !.ret = "open"]
    /\ UNCHANGED <<acq, prev, acquired, invVars, clusterVars, ingressVars>>

\* Encode writes the bytes of the token to the file, or fails part way.
PutEncode ==
    /\ put.pc = "opened"
    /\ \/ /\ Len(file.bytes) < Len(GobEncode(put.tok))
          /\ file' = [file EXCEPT !.bytes = Append(@, GobEncode(put.tok)[Len(@) + 1])]
          /\ put' = put
       \/ /\ Len(file.bytes) < Len(GobEncode(put.tok))
          /\ file' = file
          /\ put' = [put EXCEPT !.pc = "encoded", !.encErr = "encode"]
       \/ /\ Len(file.bytes) = Len(GobEncode(put.tok))
          /\ file' = file
          /\ put' = [put EXCEPT !.pc = "encoded"]
    /\ UNCHANGED <<acq, prev, acquired, invVars, clusterVars, ingressVars>>

\* file.Close().
PutClose ==
    /\ put.pc = "encoded"
    /\ \E closeFails \in BOOLEAN :
          put' = [put EXCEPT !.pc = "closed",
                             !.clErr = IF closeFails THEN "close" ELSE ""]
    /\ UNCHANGED <<file, acq, prev, acquired, invVars, clusterVars, ingressVars>>

\* PutToken's result: the encode error, else the close error, else nil.
PutResult(encErr, clErr) == IF encErr # "" THEN encErr ELSE clErr

PutReturn ==
    /\ put.pc = "closed"
    /\ put' = [PutIdle EXCEPT !.last = "returned", !.ret = PutResult(put.encErr, put.clErr)]
    /\ UNCHANGED <<file, acq, prev, acquired, invVars, clusterVars, ingressVars>>

\* The process is interrupted after PutToken opened the file: the file stays
\* as it was written so far.
PutInterrupt ==
    /\ put.pc \in {"opened", "encoded", "closed"}
    /\ put' = [PutIdle EXCEPT !.last = "interrupted", !.tok = put.tok]
    /\ UNCHANGED <<file, acq, prev, acquired, invVars, clusterVars, ingressVars>>

(***************************************************************************)
(* browserSource.Token, step by step, as newOauthClient calls it           *)
(***************************************************************************)
AcqIdle == [pc |-> "idle", fileAtStart |-> NoFile, putBefore |-> "none",
            base |-> "", events |-> <<>>, tok |-> NoToken, err |-> ""]

Launchers == <<"xdg-open", "google-chrome", "open">>

\* openURL: the launchers are run in order up to the first that succeeds;
\* the result is the launchers that were run.
RECURSIVE OpenURLFrom(_, _)
OpenURLFrom(i, working) ==
    IF i > Len(Launchers) THEN <<>>
    ELSE IF Launchers[i] \in working THEN <<Launchers[i]>>
    ELSE <<Launchers[i]>> \o OpenURLFrom(i + 1, working)

OpenURL(working) == OpenURLFrom(1, working)

\* A mutant of the first step of browserSource.Token: the interactive flow
\* is entered whatever the file-backed source returned.
BrowserBaseAlways(tok, err) == [pc |-> "interactive", tok |-> NoToken]

\* if token, err := source.base.Token(); err == nil { return token, nil }
BrowserBase(tok, err) ==
    IF err = "" THEN [pc |-> "done", tok |-> tok]
    ELSE [pc |-> "interactive", tok |-> NoToken]

\* browserSource.Token begins: the file-backed source is asked first.
TokenBase ==
    /\ acq.pc = "idle"
    /\ put.pc = "idle"
    /\ acquired < MaxAcquire
    /\ \E closeFails \in BOOLEAN :
          LET r == GobSourceToken(file, closeFails)
              b == BrowserBase(r.tok, r.err)
          IN  acq' = [AcqIdle EXCEPT !.pc = b.pc, !.fileAtStart = file,
                                     !.putBefore = put.last,
                                     !.base = r.err, !.tok = b.tok]
    /\ UNCHANGED <<file, put, prev, acquired, invVars, clusterVars, ingressVars>>

\* oauth2Config.AuthCodeURL(randState), the state made from the clock.
TokenAuthURL ==
    /\ acq.pc = "interactive"
    /\ acq' = [acq EXCEPT !.pc = "url", !.events = Append(@, "authURL")]
    /\ UNCHANGED <<file, put, prev, acquired, invVars, clusterVars, ingressVars>>

\* openURL(authURL): best effort, no error whatever the launchers do.
TokenOpenURL ==
    /\ acq.pc = "url"
    /\ \E working \in SUBSET {"xdg-open", "google-chrome", "open"} :
          acq' = [acq EXCEPT !.pc = "browser",
                             !.events = @ \o OpenURL(working)]
    /\ UNCHANGED <<file, put, prev, acquired, invVars, clusterVars, ingressVars>>

\* getCodeFromStdin().
TokenReadCode ==
    /\ acq.pc = "browser"
    /\ acq' = [acq EXCEPT !.pc = "code", !.events = Append(@, "stdin")]
    /\ UNCHANGED <<file, put, prev, acquired, invVars, clusterVars, ingressVars>>

\* return oauth2Config.Exchange(ctx, code): the token of the server, or its
\* error. Nothing is written to the token file.
TokenExchange ==
    /\ acq.pc = "code"
    /\ \/ \E tok \in Tokens :
             acq' = [acq EXCEPT !.pc = "done", !.tok = tok,
                                !.events = Append(@, "exchange")]
       \/ acq' = [acq EXCEPT !.pc = "done", !.err = "exchange",
                             !.events = Append(@, "exchange")]
    /\ UNCHANGED <<file, put, prev, acquired, invVars, clusterVars, ingressVars>>

\* newOauthClient returns: the client of the token, or the error.
TokenReturn ==
    /\ acq.pc = "done"
    /\ prev' = acq
    /\ acq' = AcqIdle
    /\ acquired' = acquired + 1
    /\ UNCHANGED <<file, put, invVars, clusterVars, ingressVars>>

\* The token file before the first call: absent, not readable, empty,
\* damaged, or the record of a token.
InitialFiles ==
    { NoFile,
      [exists |-> TRUE, readable |-> FALSE, bytes |-> GobEncode([access |-> "a1", refresh |-> "r1"])],
      [exists |-> TRUE, readable |-> TRUE, bytes |-> <<>>],
      [exists |-> TRUE, readable |-> TRUE, bytes |-> <<"x", "y">>],
      [exists |-> TRUE, readable |-> TRUE, bytes |-> <<"2", "T", "D", "1", "a1">>] }
    \cup { [exists |-> TRUE, readable |-> TRUE, bytes |-> GobEncode(t)] : t \in Tokens }

TokenIdle ==
    /\ file = NoFile
    /\ put = PutIdle
    /\ acq = AcqIdle
    /\ prev = AcqIdle
    /\ acquired = 0

(***************************************************************************)
(* drivers/amazon: the ingress rule of the security group                  *)
(***************************************************************************)
\* base.defaultPort, the port of the cockroach nodes.
defaultPort == 8080

Regions == {"us-east-1", "us-west-2"}

Ports == {defaultPort, defaultPort + 1}

\* Group ids a caller may pass; the provider has no group sg-0.
GroupIds == {"sg-1", "sg-0"}

ProviderGroups == {"sg-1"}

\* The rule the call asks for: tcp from 0.0.0.0/0, both ports cockroachPort.
IngressRule(region, cockroachPort, securityGroupID) ==
    [region |-> region, group |-> securityGroupID, cidr |-> "0.0.0.0/0",
     protocol |-> "tcp", from |-> cockroachPort, to |-> cockroachPort]

RuleKeys == { IngressRule(r, p, g) : r \in Regions, p \in Ports, g \in GroupIds }

\* A Go error of the EC2 client: nil, an AWS error with its code, or another.
NilErr == [kind |-> "nil", code |-> ""]

AwsErr(code) == [kind |-> "aws", code |-> code]

RequestErr == [kind |-> "other", code |-> "RequestError"]

\* ec2Service.AuthorizeSecurityGroupIngress as the provider answers it: the
\* request may not get through; a group that does not exist and a rule that
\* is already there are refused; else the rule is added.
AuthorizeSecurityGroupIngress(held, rule, reached) ==
    IF ~reached THEN [rules |-> held, err |-> RequestErr]
    ELSE IF rule.group \notin ProviderGroups
    THEN [rules |-> held, err |-> AwsErr("InvalidGroup.NotFound")]
    ELSE IF held[rule] > 0
    THEN [rules |-> held, err |-> AwsErr("InvalidPermission.Duplicate")]
    ELSE [rules |-> [held EXCEPT ![rule] = @ + 1], err |-> NilErr]

\* IsAWSErrorCode(err, code): err is an AWS error that carries the code.
IsAWSErrorCode(err, code) == err.kind = "aws" /\ err.code = code

\* A mutant of the result: the duplicate error is returned like any other.
IngressResultStrict(err) == err

\* if IsAWSErrorCode(err, awsSecurityRuleDuplicateError) { return nil }
\* return err
IngressResult(err) ==
    IF IsAWSErrorCode(err, "InvalidPermission.Duplicate") THEN NilErr ELSE err

IngressIdle ==
    /\ rules = [k \in RuleKeys |-> 0]
    /\ calls = <<>>

\* AddCockroachSecurityGroupIngress(region, cockroachPort, securityGroupID).
AddCockroachSecurityGroupIngress ==
    /\ Len(calls) < MaxIngress
    /\ \E region \in Regions, cockroachPort \in Ports, securityGroupID \in GroupIds,
          reached \in BOOLEAN :
          LET rule == IngressRule(region, cockroachPort, securityGroupID)
              r == AuthorizeSecurityGroupIngress(rules, rule, reached)
          IN  /\ rules' = r.rules
              /\ calls' = Append(calls, [rule |-> rule, held |-> rules[rule],
                                         answer |-> r.err, ret |-> IngressResult(r.err)])
    /\ UNCHANGED <<invVars, clusterVars, tokenVars>>

(***************************************************************************)
(* The inventory functions on drawn inputs                                 *)
(***************************************************************************)
\* The ids MakeNodeName is given: every non-negative int, and two negative.
Ids == (0 - 2)..MaxInt

\* Machine names of a listing: node names with small, padded, large and
\* out-of-range indices, names that miss the pattern, and foreign machines.
GoodSuffixes ==
    { <<"0">>, <<"1">>, <<"3">>, <<"1", "2">>, <<"0", "0", "7">>,
      <<"1", "2", "7">> }

BigSuffixes == { <<"2", "5", "6">>, <<"9", "9", "9", "9">> }

BadNames ==
    { NodePrefix \o <<"x">>, NodePrefix, NodePrefix \o <<"1", "x">>,
      <<"x">> \o NodePrefix \o <<"1">>, <<"d", "e", "v">> }

MachineNames == { NodePrefix \o s : s \in GoodSuffixes \cup BigSuffixes } \cup BadNames

Listings == UNION { [1..n -> MachineNames] : n \in 0..MaxList }

NotListed == [done |-> FALSE, lsFailed |-> FALSE, nodes |-> <<>>, err |-> NoErr]

NotIndexed == [done |-> FALSE, from |-> "", arg |-> <<>>, index |-> 0, err |-> NoErr]

Operators == {1, 2}

ClusterIdle ==
    /\ registry = <<>>
    /\ pc = [o \in Operators |-> "idle"]
    /\ nodes = [o \in Operators |-> <<>>]
    /\ largest = [o \in Operators |-> 0]
    /\ opErr = [o \in Operators |-> NoErr]
    /\ issued = <<>>

InvIdle ==
    /\ input = [kind |-> "names", id |-> 0, names |-> <<>>]
    /\ made = <<>>
    /\ listed = NotListed
    /\ idx = NotIndexed

InvInit ==
    /\ input \in { [kind |-> "id", id |-> i, names |-> <<>>] : i \in Ids }
                 \cup { [kind |-> "names", id |-> 0, names |-> l] : l \in Listings }
    /\ made = <<>>
    /\ listed = NotListed
    /\ idx = NotIndexed
    /\ ClusterIdle
    /\ TokenIdle
    /\ IngressIdle

\* MakeNodeName(id).
CallMakeNodeName ==
    /\ input.kind = "id"
    /\ made = <<>>
    /\ made' = MakeNodeName(input.id)
    /\ UNCHANGED <<input, listed, idx, clusterVars, tokenVars, ingressVars>>

\* ListCockroachNodes(): ListMachines returns the listing, or fails.
CallListCockroachNodes ==
    /\ input.kind = "names"
    /\ ~listed.done
    /\ ~idx.done
    /\ \E lsFailed \in BOOLEAN :
          LET r == ListCockroachNodes(input.names, lsFailed)
          IN  listed' = [done |-> TRUE, lsFailed |-> lsFailed,
                         nodes |-> r.nodes, err |-> r.err]
    /\ UNCHANGED <<input, made, idx, clusterVars, tokenVars, ingressVars>>

Indexed(from, arg) ==
    LET r == GetLargestNodeIndex(arg)
    IN  [done |-> TRUE, from |-> from, arg |-> arg, index |-> r.index, err |-> r.err]

\* GetLargestNodeIndex(nodes), on the name MakeNodeName made, on the nodes
\* ListCockroachNodes returned, or on the unfiltered listing (a caller that
\* goes around the filter).
CallGetLargestNodeIndex ==
    /\ ~idx.done
    /\ \/ /\ made # <<>>
          /\ idx' = Indexed("made", <<made>>)
       \/ /\ listed.done
          /\ listed.err = NoErr
          /\ idx' = Indexed("listed", listed.nodes)
       \/ /\ input.kind = "names"
          /\ ~listed.done
          /\ idx' = Indexed("raw", input.names)
    /\ UNCHANGED <<input, made, listed, clusterVars, tokenVars, ingressVars>>

InvNext == CallMakeNodeName \/ CallListCockroachNodes \/ CallGetLargestNodeIndex

SpecInventory == InvInit /\ [][InvNext]_vars

(***************************************************************************)
(* The cluster: operators adding nodes through docker-machine              *)
(***************************************************************************)
\* Go's int arithmetic wraps around.
WrapInt(x) == ((x + MaxInt + 1) % (2 * (MaxInt + 1))) - (MaxInt + 1)

\* The name the orchestrator gives the next node: cockroach-0 when there is
\* no node yet, else the largest index seen plus one.
NextNodeName(seen, index) ==
    IF seen = <<>> THEN MakeNodeName(0) ELSE MakeNodeName(WrapInt(index + 1))

InRegistry(reg, name) == \E i \in 1..Len(reg) : reg[i] = name

\* CreateMachine: `docker-machine create ... name`. The tool registers the
\* machine when it succeeds; it refuses a name it already has.
CreateMachine(reg, name, toolOk) ==
    IF toolOk /\ ~InRegistry(reg, name)
    THEN [registry |-> Append(reg, name), err |-> NoErr]
    ELSE [registry |-> reg, err |-> [msg |-> "exit status 1", name |-> name]]

\* Machines that are no cluster nodes, present before the first node.
ForeignListings == UNION { [1..n -> BadNames] : n \in 0..1 }

ClusterInit ==
    /\ registry \in ForeignListings
    /\ pc = [o \in Operators |-> "idle"]
    /\ nodes = [o \in Operators |-> <<>>]
    /\ largest = [o \in Operators |-> 0]
    /\ opErr = [o \in Operators |-> NoErr]
    /\ issued = <<>>
    /\ InvIdle
    /\ TokenIdle
    /\ IngressIdle

\* An operator lists the cluster's nodes: ListCockroachNodes().
OpList(o) ==
    /\ pc[o] = "idle"
    /\ Len(issued) < MaxCreate
    /\ \E lsFailed \in BOOLEAN :
          LET r == ListCockroachNodes(registry, lsFailed)
          IN  /\ nodes' = [nodes EXCEPT ![o] = r.nodes]
              /\ opErr' = [opErr EXCEPT ![o] = r.err]
              /\ pc' = [pc EXCEPT ![o] = IF r.err = NoErr THEN "listed" ELSE "idle"]
    /\ UNCHANGED <<registry, largest, issued, invVars, tokenVars, ingressVars>>

\* It computes the largest index: GetLargestNodeIndex(nodes).
OpIndex(o) ==
    /\ pc[o] = "listed"
    /\ LET r == GetLargestNodeIndex(nodes[o])
       IN  /\ largest' = [largest EXCEPT ![o] = r.index]
           /\ opErr' = [opErr EXCEPT ![o] = r.err]
           /\ pc' = [pc EXCEPT ![o] = IF r.err = NoErr THEN "indexed" ELSE "idle"]
    /\ UNCHANGED <<registry, nodes, issued, invVars, tokenVars, ingressVars>>

\* It creates the next node: CreateMachine(driver, name).
OpCreate(o) ==
    /\ pc[o] = "indexed"
    /\ \E toolOk \in BOOLEAN :
          LET name == NextNodeName(nodes[o], largest[o])
              r == CreateMachine(registry, name, toolOk)
          IN  /\ registry' = r.registry
              /\ opErr' = [opErr EXCEPT ![o] = r.err]
              /\ issued' = Append(issued, [op |-> o, name |-> name,
                                           seen |-> nodes[o], index |-> largest[o],
                                           listing |-> registry, ok |-> r.err = NoErr])
    /\ pc' = [pc EXCEPT ![o] = "idle"]
    /\ UNCHANGED <<nodes, largest, invVars, tokenVars, ingressVars>>

OpStep(o) == OpList(o) \/ OpIndex(o) \/ OpCreate(o)

\* Sequential use: an operator moves only while no other is under way.
OthersIdle(o) == \A p \in Operators \ {o} : pc[p] = "idle"

SeqNext == \E o \in Operators : OthersIdle(o) /\ OpStep(o)

SpecCluster == ClusterInit /\ [][SeqNext]_vars

\* Concurrent use: nothing in list, index, create takes a lock, so the steps
\* of the operators interleave freely.
ConcNext == \E o \in Operators : OpStep(o)

SpecConcurrent == ClusterInit /\ [][ConcNext]_vars

(***************************************************************************)
(* The token cache: acquisitions and PutToken calls, one at a time         *)
(***************************************************************************)
TokenInit ==
    /\ file \in InitialFiles
    /\ put = PutIdle
    /\ acq = AcqIdle
    /\ prev = AcqIdle
    /\ acquired = 0
    /\ InvIdle
    /\ ClusterIdle
    /\ IngressIdle

TokenNext ==
    \/ PutMkdir \/ PutOpen \/ PutEncode \/ PutClose \/ PutReturn \/ PutInterrupt
    \/ TokenBase \/ TokenAuthURL \/ TokenOpenURL \/ TokenReadCode
    \/ TokenExchange \/ TokenReturn

SpecToken == TokenInit /\ [][TokenNext]_vars

(***************************************************************************)
(* The security group: ingress calls on a group with or without the rule   *)
(***************************************************************************)
\* The rule may be there before the first call: an earlier run added it.
IngressInit ==
    /\ rules \in [RuleKeys -> {0, 1}]
    /\ \A k \in RuleKeys : k.group \notin ProviderGroups => rules[k] = 0
    /\ calls = <<>>
    /\ InvIdle
    /\ ClusterIdle
    /\ TokenIdle

IngressNext == AddCockroachSecurityGroupIngress

SpecIngress == IngressInit /\ [][IngressNext]_vars

(***************************************************************************)
(* What the naming scheme says, stated without the code's loops            *)
(***************************************************************************)
\* cockroach- followed by one or more decimal digits and nothing else.
IsNodeName(s) ==
    /\ Len(s) > Len(NodePrefix)
    /\ \A i \in 1..Len(NodePrefix) : s[i] = NodePrefix[i]
    /\ \A i \in (Len(NodePrefix) + 1)..Len(s) :
          s[i] \in {"0", "1", "2", "3", "4", "5", "6", "7", "8", "9"}

IndexPart(s) == SubSeq(s, Len(NodePrefix) + 1, Len(s))

RECURSIVE Pow10(_)
Pow10(n) == IF n = 0 THEN 1 ELSE 10 * Pow10(n - 1)

RECURSIVE DecimalSum(_, _)
DecimalSum(d, i) ==
    IF i > Len(d) THEN 0
    ELSE DigitVal(d[i]) * Pow10(Len(d) - i) + DecimalSum(d, i + 1)

\* The number a string of decimal digits denotes.
DecimalValue(d) == DecimalSum(d, 1)

\* A well-formed node name: it has the pattern's shape and its index is an int.
WellFormed(s) == IsNodeName(s) /\ DecimalValue(IndexPart(s)) <= MaxInt

Malformed(s) == ~WellFormed(s)

MaxOf(S) == CHOOSE m \in S : \A x \in S : x <= m

Indices(names) == { DecimalValue(IndexPart(names[i])) : i \in 1..Len(names) }

\* C4: for every non-negative id, the name MakeNodeName makes matches the
\* naming pattern, and GetLargestNodeIndex of that one name returns the id
\* and no error.
C4_NameRoundTrip ==
    (input.kind = "id" /\ input.id >= 0 /\ made # <<>>) =>
        /\ IsNodeName(made)
        /\ MatchString(made)
        /\ idx.done => (idx.arg = <<made>> /\ idx.index = input.id /\ idx.err = NoErr)

C4_Witness ==
    /\ input.kind = "id"
    /\ input.id = MaxInt
    /\ idx.done
    /\ idx.from = "made"
    /\ idx.index = MaxInt
    /\ Len(made) > Len(NodePrefix) + 1

\* C5: for a sequence of well-formed node names GetLargestNodeIndex returns
\* the maximum of their indices (0 for the empty sequence) and no error: the
\* largest index itself, whatever the order and with duplicates allowed.
C5_LargestIsMaximum ==
    (idx.done /\ \A i \in 1..Len(idx.arg) : WellFormed(idx.arg[i])) =>
        /\ idx.err = NoErr
        /\ idx.index = MaxOf(Indices(idx.arg) \cup {0})
        /\ idx.arg = <<>> => idx.index = 0

C5_Witness ==
    /\ idx.done
    /\ idx.from = "raw"
    /\ idx.arg = <<NodePrefix \o <<"3">>, NodePrefix \o <<"1">>, NodePrefix \o <<"3">>>>
    /\ idx.index = 3
    /\ idx.err = NoErr

\* C6: ListCockroachNodes returns exactly the names of the listing that match
\* the pattern as a whole string, in the listing's order and with duplicates
\* kept; it fails only when the listing itself fails.
C6_ListIsFilter ==
    listed.done =>
        /\ (listed.err # NoErr) <=> listed.lsFailed
        /\ ~listed.lsFailed => listed.nodes = SelectSeq(input.names, IsNodeName)

C6_Witness ==
    /\ listed.done
    /\ listed.err = NoErr
    /\ input.names = <<NodePrefix \o <<"1", "2">>, NodePrefix \o <<"1", "x">>,
                       NodePrefix \o <<"1">>>>
    /\ listed.nodes = <<NodePrefix \o <<"1", "2">>, NodePrefix \o <<"1">>>>

FirstMalformed(names) ==
    names[CHOOSE i \in 1..Len(names) :
             Malformed(names[i]) /\ \A j \in 1..(i - 1) : WellFormed(names[j])]

\* C7: GetLargestNodeIndex fails whenever some entry does not match the
\* pattern or has an index that is no int, wherever the entry stands: it
\* returns -1 and an error that names the (first) offending entry.
C7_MalformedFails ==
    (idx.done /\ \E i \in 1..Len(idx.arg) : Malformed(idx.arg[i])) =>
        /\ idx.index = -1
        /\ idx.err.msg = "invalid cockroach node name"
        /\ idx.err.name = FirstMalformed(idx.arg)

C7_Witness ==
    /\ idx.done
    /\ idx.from = "raw"
    /\ idx.arg = <<NodePrefix \o <<"3">>, NodePrefix \o <<"1", "x">>, NodePrefix \o <<"1">>>>
    /\ idx.index = -1
    /\ idx.err.name = NodePrefix \o <<"1", "x">>

\* C8: GetLargestNodeIndex applied to what ListCockroachNodes returned never
\* fails, whatever the size of the indices and with leading zeros.
C8_PipelineNeverFails ==
    (idx.done /\ idx.from = "listed") => idx.err = NoErr

\* The names of the create commands that succeeded, in order.
RECURSIVE CreatedNames(_)
CreatedNames(cmds) ==
    IF cmds = <<>> THEN <<>>
    ELSE LET rest == CreatedNames(SubSeq(cmds, 1, Len(cmds) - 1))
         IN  IF cmds[Len(cmds)].ok THEN Append(rest, cmds[Len(cmds)].name) ELSE rest

\* C9: in sequential use from an empty node list every create command names
\* a node that the listing does not hold; the k-th node created is
\* cockroach-(k-1); the nodes created are pairwise distinct and the filtered
\* listing returns all of them, in order.
C9_SequentialNamesFresh ==
    LET created == CreatedNames(issued)
    IN  /\ \A k \in 1..Len(issued) : ~InRegistry(issued[k].listing, issued[k].name)
        /\ \A k \in 1..Len(created) : created[k] = NodePrefix \o FormatUint(k - 1)
        /\ \A j, k \in 1..Len(created) : j # k => created[j] # created[k]
        /\ ListCockroachNodes(registry, FALSE).nodes = created

C9_Witness ==
    /\ Len(issued) = MaxCreate
    /\ \A k \in 1..Len(issued) : issued[k].ok
    /\ Len(registry) = MaxCreate + 1
    /\ registry[MaxCreate + 1] = NodePrefix \o FormatUint(MaxCreate - 1)

(***************************************************************************)
(* The token cache                                                         *)
(***************************************************************************)
\* The file holds the whole record of the token.
FileHolds(f, tok) ==
    f.exists /\ f.readable /\ GobDecode(f.bytes).err = "" /\ GobDecode(f.bytes).tok = tok

Decodes(f) == f.exists /\ f.readable /\ GobDecode(f.bytes).err = ""

\* The interactive flow, in order: the auth URL, the launchers tried, the
\* code read from standard input, the exchange.
InteractiveEvents(ev) ==
    /\ Len(ev) >= 4
    /\ ev[1] = "authURL"
    /\ \A i \in 2..(Len(ev) - 2) : ev[i] = Launchers[i - 1]
    /\ ev[Len(ev) - 1] = "stdin"
    /\ ev[Len(ev)] = "exchange"

\* C1: a token that the interactive flow obtains is in the token file when
\* it is returned, so an acquisition that follows one begun without a file
\* returns the cached token with no interactive step.
C1_TokenPersisted ==
    /\ (acq.pc = "done" /\ acq.base # "" /\ acq.err = "") => FileHolds(file, acq.tok)
    /\ (acq.pc # "idle" /\ prev.pc = "done" /\ ~prev.fileAtStart.exists /\ prev.err = "") =>
          (acq.base = "" /\ acq.tok = prev.tok /\ acq.events = <<>>)

\* C2, as amended: when gobSource.Token returns no error (the file opens,
\* decodes and closes), its token is returned with no interactive step; when
\* it returns any error, the interactive flow is entered and the error
\* returned, if any, is the exchange's, never the file's.
C2_FileFirst ==
    acq.pc # "idle" =>
        /\ acq.base = "" =>
              /\ acq.pc = "done"
              /\ acq.events = <<>>
              /\ acq.err = ""
              /\ FileHolds(acq.fileAtStart, acq.tok)
        /\ acq.base # "" =>
              /\ acq.pc \in {"interactive", "url", "browser", "code", "done"}
              /\ acq.err \in {"", "exchange"}
              /\ acq.pc = "done" => InteractiveEvents(acq.events)
        /\ ~Decodes(acq.fileAtStart) => acq.base \in FileErrors

C2_Witness ==
    /\ acq.pc = "done"
    /\ acq.base = "no such file"
    /\ acq.err = "exchange"
    /\ acq.events = <<"authURL", "xdg-open", "google-chrome", "open", "stdin", "exchange">>

\* C2, as stated: whenever the file opens and decodes, its token is returned
\* with no interactive step.
C2_AsStated ==
    (acq.pc # "idle" /\ Decodes(acq.fileAtStart)) =>
        /\ acq.pc = "done"
        /\ acq.events = <<>>
        /\ FileHolds(acq.fileAtStart, acq.tok)

\* C10, as amended: after a PutToken interrupted once the file was opened, an
\* acquisition never returns a partial token. If the record was not written
\* whole, gobSource.Token fails and the interactive flow is entered, which
\* returns what the exchange returns; if it was written whole, gobSource.Token
\* returns that token.
C10_InterruptedPut ==
    (acq.pc # "idle" /\ acq.putBefore = "interrupted") =>
        /\ acq.base = "" => (acq.tok = put.tok /\ acq.fileAtStart.bytes = GobEncode(put.tok))
        /\ acq.fileAtStart.bytes # GobEncode(put.tok) =>
              /\ acq.base \in FileErrors
              /\ acq.pc \in {"interactive", "url", "browser", "code", "done"}
              /\ acq.pc = "done" =>
                    /\ InteractiveEvents(acq.events)
                    /\ acq.err = "" => acq.tok \in Tokens
                    /\ acq.err # "" => (acq.err = "exchange" /\ acq.tok = NoToken)

C10_Witness ==
    /\ acq.pc = "done"
    /\ acq.putBefore = "interrupted"
    /\ acq.fileAtStart.bytes = <<"2", "T", "D", "2", "a1">>
    /\ put.tok = [access |-> "a1", refresh |-> "r1"]
    /\ acq.base = "unexpected EOF"
    /\ acq.tok = [access |-> "a2", refresh |-> "r2"]

\* C10, as stated: after a PutToken interrupted at any point once the file
\* was opened, the next gobSource.Token returns an error and the interactive
\* flow is entered.
C10_AsStated ==
    (acq.pc # "idle" /\ acq.putBefore = "interrupted") =>
        /\ acq.base # ""
        /\ acq.pc \in {"interactive", "url", "browser", "code", "done"}

(***************************************************************************)
(* The ingress rule                                                        *)
(***************************************************************************)
\* C3: AddCockroachSecurityGroupIngress returns success whether or not the
\* rule was there: when the provider accepts the call or answers it with
\* InvalidPermission.Duplicate the call returns nil, so the same call made
\* twice in succession succeeds both times; any other error is returned as
\* it is; and the group never holds more than one such rule.
C3_IngressIdempotent ==
    /\ \A i \in 1..Len(calls) :
          /\ calls[i].answer \in {NilErr, AwsErr("InvalidPermission.Duplicate")}
                => calls[i].ret = NilErr
          /\ calls[i].answer \notin {NilErr, AwsErr("InvalidPermission.Duplicate")}
                => calls[i].ret = calls[i].answer
          /\ (calls[i].held > 0 /\ calls[i].answer.kind # "other") => calls[i].ret = NilErr
    /\ \A i \in 1..(Len(calls) - 1) :
          (calls[i].rule = calls[i + 1].rule /\ calls[i].answer = NilErr
              /\ calls[i + 1].answer.kind # "other")
            => /\ calls[i + 1].answer = AwsErr("InvalidPermission.Duplicate")
               /\ calls[i].ret = NilErr
               /\ calls[i + 1].ret = NilErr
    /\ \A k \in RuleKeys : rules[k] <= 1

C3_Witness ==
    /\ Len(calls) >= 2
    /\ calls[1].rule = calls[2].rule
    /\ calls[1].held = 0
    /\ calls[1].answer = NilErr
    /\ calls[2].answer = AwsErr("InvalidPermission.Duplicate")
    /\ calls[2].ret = NilErr
    /\ rules[calls[1].rule] = 1

(***************************************************************************)
(* Concurrent operators                                                    *)
(***************************************************************************)
\* C11: with operators running list, index, create concurrently, every
\* create still names a node that is not in the listing its operator read;
\* and whenever a create names the node of an earlier successful create, it
\* comes from another operator that read its listing before that node was
\* registered. Such a pair is reachable (C11_Witness): names are unique only
\* in sequential use.
C11_DuplicateFromStaleListing ==
    /\ \A k \in 1..Len(issued) : ~InRegistry(issued[k].seen, issued[k].name)
    /\ \A j, k \in 1..Len(issued) :
          (j < k /\ issued[j].ok /\ issued[j].name = issued[k].name) =>
              /\ issued[j].op # issued[k].op
              /\ InRegistry(issued[k].listing, issued[k].name)
              /\ ~issued[k].ok

\* Both operators read the same listing, computed the same index and issued
\* a create for the same node name.
C11_Witness ==
    \E j, k \in 1..Len(issued) :
        /\ j < k
        /\ issued[j].op # issued[k].op
        /\ issued[j].seen = issued[k].seen
        /\ issued[j].seen # <<>>
        /\ issued[j].index = issued[k].index
        /\ issued[j].name = issued[k].name
        /\ issued[j].ok

====
